---- MODULE Spec2Model ----
(***************************************************************************)
(* Model of src/main.rs (analemma): the AnnalemmaSimulation struct, its    *)
(* methods, and the event loop of main that dispatches Render and Update   *)
(* events to it.                                                           *)
(*                                                                         *)
(* Number representation.  The program computes in f64.  The model uses    *)
(* fixed point:                                                            *)
(*   - sun offsets and pixel coordinates are integers in 1/Scale units     *)
(*     (hundredths), so 23.44 is 2344 and 292.48 is 29248;                 *)
(*   - angles are integers in 1/AngleScale radians;                        *)
(*   - colour components are integers in 1/ColourScale units;              *)
(*   - an elapsed time dt is a record [ticks, gap].  With gap = 0 it is    *)
(*     ticks / TicksPerSecond seconds, TicksPerSecond a power of two.      *)
(*     With gap = j > 0 (and ticks = 0) it is (1 - 2^-j) / 60 seconds,     *)
(*     which is an f64 when j is a multiple of 4: (2^j - 1) / 15 is then   *)
(*     whole and dt = ((2^j - 1) / 15) * 2^-(j + 2).  For both kinds the   *)
(*     f64 product animation_speed * dt * 60.0 is exact; the f64 sum       *)
(*     current_day + product is rounded to 53 significant bits, and the    *)
(*     model rounds it the same way.                                       *)
(* sin and cos are evaluated by a Taylor polynomial in fixed point, which  *)
(* agrees with the f64 result to within one hundredth after scaling.       *)
(***************************************************************************)
EXTENDS Integers, Sequences, FiniteSets

VARIABLES sun_positions, current_day, animation_speed,
          date_positions, running, event, day_before, frame, probe

vars == <<sun_positions, current_day, animation_speed,
          date_positions, running, event, day_before, frame, probe>>

simVars == <<sun_positions, current_day, animation_speed>>

----------------------------------------------------------------------------
(* Resolution of the fixed-point representation and bounds of the inputs.  *)

Scale == 100
AngleScale == 10000
ColourScale == 1000

\* a tick is 2^-TickBits seconds
TickBits == 6
TicksPerSecond == 2 ^ TickBits
\* short update steps: dt in 0..MaxDt ticks
MaxDt == 1
\* long update steps, in whole seconds
LongSteps == {60}
\* update steps of (1 - 2^-j) / 60 seconds, just below one simulated day
GapSet == {40, 44, 48}
\* probe samples for screen_position: x in -MaxH..MaxH quarter units,
\* y in -MaxV..MaxV steps of 5.86 (four steps are the axial tilt 23.44)
MaxH == 6
MaxV == 4

Ticks(t) == [ticks |-> t, gap |-> 0]
Seconds(s) == Ticks(s * TicksPerSecond)
AlmostSixtieth(j) == [ticks |-> 0, gap |-> j]

DtSet ==
    {Ticks(t) : t \in 0..MaxDt}
        \cup {Seconds(s) : s \in LongSteps}
        \cup {AlmostSixtieth(j) : j \in GapSet}

----------------------------------------------------------------------------
(* Program constants.                                                      *)

WIDTH == 540
HEIGHT == 960
PathDays == 365
InitialDay == 136
InitialSpeed == 1
UpdateFactor == 60
YearLength == 365
SunLoopLast == 365
x_scale == 15
y_scale == 8
GradientSteps == 100
\* std::f64::consts::PI in 1/AngleScale radians
PI == 31416
\* significant bits of an f64
MantissaBits == 53

----------------------------------------------------------------------------
(* Fixed-point helpers.                                                    *)

\* n / d rounded to the nearest integer, symmetric about zero (d > 0)
RoundDiv(n, d) ==
    IF n >= 0 THEN (2 * n + d) \div (2 * d)
              ELSE -((2 * (-n) + d) \div (2 * d))

\* sin on the first quadrant, x in 0..PI/2 (1/AngleScale radians);
\* Taylor polynomial up to x^9 in Horner form
SinQuadrant(x) ==
    LET x2 == (x * x) \div AngleScale
        h4 == AngleScale - x2 \div 72
        h3 == AngleScale - ((x2 * h4) \div AngleScale) \div 42
        h2 == AngleScale - ((x2 * h3) \div AngleScale) \div 20
        h1 == AngleScale - ((x2 * h2) \div AngleScale) \div 6
    IN  (x * h1) \div AngleScale

\* f64::sin: result in 1/AngleScale units
sin(a) ==
    LET r == a % (2 * PI)
    IN  IF r <= PI \div 2 THEN SinQuadrant(r)
        ELSE IF r <= PI THEN SinQuadrant(PI - r)
        ELSE IF r <= PI + PI \div 2 THEN -SinQuadrant(r - PI)
        ELSE -SinQuadrant(2 * PI - r)

\* f64::cos
cos(a) == sin(a + PI \div 2)

----------------------------------------------------------------------------
(* AnnalemmaSimulation: the astronomical formulas.                         *)

\* day_of_year is a whole day; result in 1/Scale units
equation_of_time(day_of_year) ==
    LET \* (day_of_year / 365.35) * 2.0 * PI, with 365.35 = 7307 / 20
        day_angle == RoundDiv(day_of_year * 20 * 2 * PI, 7307)
        \* 9.655 * sin(2 * day_angle), in 1/(1000 * AngleScale)
        eccentricity_term == 9655 * sin(2 * day_angle)
        \* 7.873 * sin(day_angle + 3.588)
        obliquity_term == 7873 * sin(day_angle + 35880)
        equation_minutes == eccentricity_term + obliquity_term
    IN  RoundDiv(equation_minutes, 4 * ((1000 * AngleScale) \div Scale))

solar_declination(day_of_year) ==
    LET \* (day_of_year / 365.25) * 2.0 * PI, with 365.25 = 1461 / 4
        day_angle == RoundDiv(day_of_year * 4 * 2 * PI, 1461)
        \* 23.44 in 1/Scale units
        axial_tilt == 2344
        solstice_offset == day_angle - RoundDiv(172 * 4 * 2 * PI, 1461)
    IN  RoundDiv(axial_tilt * cos(solstice_offset), AngleScale)

calculate_sun_position(day_of_year) ==
    <<equation_of_time(day_of_year), solar_declination(day_of_year)>>

----------------------------------------------------------------------------
(* AnnalemmaSimulation: construction, update, projection, colours.         *)
(* A simulation value is a record with the three fields of the struct;     *)
(* sun_positions[i + 1] is the element at index i of the Vec.              *)

\* Vec::get: the element at a zero-based index, as a sequence of length
\* one, or the empty sequence when the index is out of range
Get(vec, index) ==
    IF index < Len(vec) THEN <<vec[index + 1]>> ELSE <<>>

\* new with the loop bound taken inclusively: one sample too many
new_inclusive_loop ==
    [sun_positions |->
        [i \in 1..(PathDays + 1) |->
            LET pos == calculate_sun_position(i - 1)
            IN  [x |-> pos[1], y |-> pos[2], day |-> i - 1]],
     current_day |-> InitialDay,
     animation_speed |-> InitialSpeed]

new ==
    [sun_positions |->
        [i \in 1..PathDays |->
            LET pos == calculate_sun_position(i - 1)
            IN  [x |-> pos[1], y |-> pos[2], day |-> i - 1]],
     current_day |-> InitialDay,
     animation_speed |-> InitialSpeed]

RECURSIVE Log2Floor(_)
Log2Floor(n) == IF n < 2 THEN 0 ELSE 1 + Log2Floor(n \div 2)

\* self.animation_speed * dt * 60.0 in days, as top - num / 2^bits with
\* top a whole number and 0 <= num / 2^bits < 1
Increment(speed, dt) ==
    IF dt.gap = 0
    THEN LET a == speed * dt.ticks * UpdateFactor
             top == (a + TicksPerSecond - 1) \div TicksPerSecond
         IN  [top |-> top, num |-> top * TicksPerSecond - a, bits |-> TickBits]
    ELSE [top |-> speed, num |-> speed, bits |-> dt.gap]

\* the whole part of the f64 sum  x + inc  for a whole number x: the exact
\* sum lies num / 2^bits below y = x + top; it is rounded to MantissaBits
\* significant bits and reaches y when it is within half a unit in the
\* last place (ties go to the even neighbour, which is y)
FloorOfSum(x, inc) ==
    LET y == x + inc.top
        e == inc.bits + Log2Floor(y - 1) - MantissaBits
        carries == y - 1 >= 1 /\ e >= 0 /\ inc.num <= 2 ^ e
    IN  IF inc.num = 0 \/ carries THEN y ELSE y - 1

\* update dividing the elapsed seconds by 60 instead of multiplying
update_per_minute(self, dt) ==
    LET whole == (self.animation_speed * dt.ticks)
                    \div (TicksPerSecond * UpdateFactor)
    IN  [self EXCEPT !.current_day = (self.current_day + whole) % YearLength]

\* update rounding to the nearest day instead of truncating
update_rounding(self, dt) ==
    LET inc == Increment(self.animation_speed, dt)
        y == self.current_day + inc.top
        up == inc.bits > 30 \/ 2 * inc.num <= 2 ^ inc.bits
    IN  [self EXCEPT !.current_day =
            (IF inc.num = 0 \/ up THEN y ELSE y - 1) % YearLength]

\* ((current_day as f64 + animation_speed * dt * 60.0) % 365.0) as u32:
\* the f64 remainder is exact and the cast truncates, so the result is
\* the whole part of the sum reduced modulo 365
update(self, dt) ==
    LET inc == Increment(self.animation_speed, dt)
    IN  [self EXCEPT !.current_day =
            FloorOfSum(self.current_day, inc) % YearLength]

\* screen_position without the flip of the vertical axis
screen_position_unflipped(self, sun_pos) ==
    LET center_x == (WIDTH * Scale) \div 2
        center_y == (HEIGHT * Scale) \div 2
    IN  <<center_x + sun_pos.x * x_scale,
          center_y + sun_pos.y * y_scale>>

\* result <<x, y>> in 1/Scale pixels
screen_position(self, sun_pos) ==
    LET center_x == (WIDTH * Scale) \div 2
        center_y == (HEIGHT * Scale) \div 2
    IN  <<center_x + sun_pos.x * x_scale,
          center_y - sun_pos.y * y_scale>>

\* season_colour with the last band ending at day 363
season_colour_short_year(self, day) ==
    IF day >= 0 /\ day <= 79 THEN <<400, 400, 1000, 1000>>
    ELSE IF day >= 80 /\ day <= 171 THEN <<500, 1000, 500, 1000>>
    ELSE IF day >= 172 /\ day <= 265 THEN <<1000, 800, 300, 1000>>
    ELSE IF day >= 266 /\ day <= 363 THEN <<1000, 500, 200, 1000>>
    ELSE <<1000, 1000, 1000, 1000>>

season_colour(self, day) ==
    IF day >= 0 /\ day <= 79 THEN <<400, 400, 1000, 1000>>
    ELSE IF day >= 80 /\ day <= 171 THEN <<500, 1000, 500, 1000>>
    ELSE IF day >= 172 /\ day <= 265 THEN <<1000, 800, 300, 1000>>
    ELSE IF day >= 266 /\ day <= 365 THEN <<1000, 500, 200, 1000>>
    ELSE <<1000, 1000, 1000, 1000>>

----------------------------------------------------------------------------
(* AnnalemmaSimulation: drawing.  Each draw_* operator returns the calls   *)
(* it makes to the drawing primitives, in order.                           *)

draw_sky_gradient(self) ==
    LET steps == GradientSteps
        step_height == (HEIGHT * Scale) \div steps
    IN  [k \in 1..steps |->
            LET i == k - 1
                \* t = i / (steps - 1); each component is lo + (hi - lo) * t
                Mix(lo, hi) == lo + RoundDiv((hi - lo) * i, steps - 1)
            IN  [colour |-> <<Mix(530, 870), Mix(810, 950),
                              Mix(920, 1000), 1000>>,
                 rect |-> <<0, i * step_height, WIDTH * Scale, step_height>>]]

draw_analemma_path(self) ==
    LET n == Len(self.sun_positions)
    IN  [k \in 1..n |->
            LET i == k - 1
                current_pos == screen_position(self, self.sun_positions[i + 1])
                next_pos ==
                    screen_position(self, self.sun_positions[((i + 1) % n) + 1])
            IN  [colour |-> season_colour(self, self.sun_positions[i + 1].day),
                 radius |-> 2 * Scale,
                 line |-> <<current_pos[1], current_pos[2],
                            next_pos[1], next_pos[2]>>]]

\* draw_current_sun with the exclusive loop 0..365: 365 increments
draw_current_sun_exclusive(self) ==
    LET found == Get(self.sun_positions, self.current_day)
    IN  IF found # <<>>
        THEN LET current_pos == found[1]
                 after == [self EXCEPT !.current_day =
                              self.current_day + SunLoopLast]
                 screen_pos == screen_position(after, current_pos)
             IN  [self |-> after,
                  sun |-> <<[colour |-> <<1000, 1000, 1000, 1000>>,
                             rect |-> <<screen_pos[1] - 8 * Scale,
                                        screen_pos[2] - 8 * Scale,
                                        16 * Scale, 16 * Scale>>]>>]
        ELSE [self |-> self, sun |-> <<>>]

\* draw_current_sun looking the sample up at current_day modulo the path
\* length, so that the lookup always succeeds
draw_current_sun_wrapping(self) ==
    LET found == Get(self.sun_positions,
                     self.current_day % Len(self.sun_positions))
        current_pos == found[1]
        after == [self EXCEPT !.current_day =
                     self.current_day + Cardinality(0..SunLoopLast)]
        screen_pos == screen_position(after, current_pos)
    IN  [self |-> after,
         sun |-> <<[colour |-> <<1000, 1000, 1000, 1000>>,
                    rect |-> <<screen_pos[1] - 8 * Scale,
                               screen_pos[2] - 8 * Scale,
                               16 * Scale, 16 * Scale>>]>>]

\* returns the simulation after the call and the ellipses drawn;
\* current_day is a u32 and the additions stay far below 2^32, since the
\* loop runs only when current_day is an index of the path
draw_current_sun(self) ==
    LET found == Get(self.sun_positions, self.current_day)
    IN  IF found # <<>>
        THEN LET current_pos == found[1]
                 \* for i in 0..=365 { self.current_day += 1 }
                 after == [self EXCEPT !.current_day =
                              self.current_day + Cardinality(0..SunLoopLast)]
                 screen_pos == screen_position(after, current_pos)
             IN  [self |-> after,
                  sun |-> <<[colour |-> <<1000, 1000, 1000, 1000>>,
                             rect |-> <<screen_pos[1] - 8 * Scale,
                                        screen_pos[2] - 8 * Scale,
                                        16 * Scale, 16 * Scale>>]>>]
        ELSE [self |-> self, sun |-> <<>>]

render(self) ==
    LET s == draw_current_sun(self)
    IN  [self |-> s.self,
         clear |-> <<<<502, 788, 909, 900>>>>,
         gradient |-> draw_sky_gradient(self),
         path |-> draw_analemma_path(self),
         sun |-> s.sun]

get_date_info(self) ==
    LET key_days == <<[day |-> 80, name |-> "Vernal Equinox"],
                      [day |-> 172, name |-> "Summer Solstice"],
                      [day |-> 266, name |-> "Autumnal Equinox"],
                      [day |-> 355, name |-> "Winter Solstice"]>>
        Present(k) == Get(self.sun_positions, key_days[k].day) # <<>>
        Entry(k) ==
            [pos |-> screen_position(self,
                        Get(self.sun_positions, key_days[k].day)[1]),
             name |-> key_days[k].name]
        RECURSIVE Collect(_)
        Collect(k) ==
            IF k = 0 THEN <<>>
            ELSE IF Present(k) THEN Append(Collect(k - 1), Entry(k))
            ELSE Collect(k - 1)
    IN  Collect(Len(key_days))

draw_date_markers(self, positions) ==
    [k \in 1..Len(positions) |->
        [colour |-> <<1000, 500, 0, 800>>,
         rect |-> <<positions[k].pos[1] - 3 * Scale,
                    positions[k].pos[2] - 3 * Scale,
                    6 * Scale, 6 * Scale>>]]

render_text(pos_x, pos_y, text) ==
    [text |-> text, x |-> pos_x, y |-> pos_y, size |-> 24,
     colour |-> <<1000, 1000, 1000, 1000>>]

----------------------------------------------------------------------------
(* main: the state after start-up and the event loop.                      *)

Self ==
    [sun_positions |-> sun_positions,
     current_day |-> current_day,
     animation_speed |-> animation_speed]

\* the draw calls of one event handler; every field is a sequence of calls
NoFrame ==
    [clear |-> <<>>, gradient |-> <<>>, path |-> <<>>, sun |-> <<>>,
     title |-> <<>>, labels |-> <<>>, markers |-> <<>>]

NoProbe ==
    [sample |-> [x |-> 0, y |-> 0, day |-> 0],
     called |-> FALSE,
     result |-> <<0, 0>>]

\* samples on which screen_position is applied directly
ProbeSamples ==
    {[x |-> h * (Scale \div 4), y |-> v * (2344 \div 4), day |-> 172] :
        h \in -MaxH..MaxH, v \in -MaxV..MaxV}

\* main up to the first window.next(): the simulation is constructed and
\* the positions of the four named days are computed once
InitMain ==
    /\ sun_positions = new.sun_positions
    /\ current_day = new.current_day
    /\ animation_speed = new.animation_speed
    /\ date_positions = get_date_info(new)
    /\ running = TRUE
    /\ event = [kind |-> "start", dt |-> Ticks(0)]
    /\ day_before = new.current_day
    /\ frame = NoFrame

Init ==
    /\ InitMain
    /\ probe = NoProbe

\* Event::Loop(Loop::Render(_)): simulation.render, the title, and for each
\* named day its label and its marker
HandleRender ==
    /\ running
    /\ LET r == render(Self)
           labels ==
               [k \in 1..Len(date_positions) |->
                   LET pos == date_positions[k].pos
                       name == date_positions[k].name
                   IN  IF name = "Vernal Equinox"
                       THEN render_text(pos[1] - 190 * Scale, pos[2], name)
                       ELSE render_text(pos[1], pos[2], name)]
           markers ==
               [k \in 1..Len(date_positions) |->
                   draw_date_markers(r.self, <<date_positions[k]>>)[1]]
       IN  /\ sun_positions' = r.self.sun_positions
           /\ current_day' = r.self.current_day
           /\ animation_speed' = r.self.animation_speed
           /\ frame' = [clear |-> r.clear,
                        gradient |-> r.gradient,
                        path |-> r.path,
                        sun |-> r.sun,
                        title |-> <<render_text(50 * Scale, 50 * Scale,
                                                "Earth's Analemma")>>,
                        labels |-> labels,
                        markers |-> markers]
    /\ event' = [kind |-> "render", dt |-> Ticks(0)]
    /\ day_before' = current_day
    /\ UNCHANGED <<date_positions, running, probe>>

\* Event::Loop(Loop::Update(UpdateArgs { dt }))
HandleUpdate(dt) ==
    /\ running
    /\ LET u == update(Self, dt)
       IN  /\ sun_positions' = u.sun_positions
           /\ current_day' = u.current_day
           /\ animation_speed' = u.animation_speed
    /\ event' = [kind |-> "update", dt |-> dt]
    /\ day_before' = current_day
    /\ frame' = NoFrame
    /\ UNCHANGED <<date_positions, running, probe>>

\* any other event: the match arm  _ => {}
HandleOther ==
    /\ running
    /\ event' = [kind |-> "other", dt |-> Ticks(0)]
    /\ day_before' = current_day
    /\ frame' = NoFrame
    /\ UNCHANGED <<simVars, date_positions, running, probe>>

\* window.next() returns None: the loop and the program end
Close ==
    /\ running
    /\ running' = FALSE
    /\ UNCHANGED <<simVars, date_positions, event, day_before, frame, probe>>

Next ==
    \/ HandleRender
    \/ \E dt \in DtSet : HandleUpdate(dt)
    \/ HandleOther
    \/ Close

Spec == Init /\ [][Next]_vars

----------------------------------------------------------------------------
(* screen_position applied to chosen samples, between render events.       *)

InitProject ==
    /\ InitMain
    /\ probe \in {[sample |-> s, called |-> FALSE, result |-> <<0, 0>>] :
                    s \in ProbeSamples}

CallScreenPosition ==
    /\ running
    /\ ~probe.called
    /\ probe' = [probe EXCEPT !.called = TRUE,
                              !.result = screen_position(Self, probe.sample)]
    /\ UNCHANGED <<simVars, date_positions, running, event, day_before, frame>>

NextProject ==
    \/ HandleRender
    \/ CallScreenPosition

SpecProject == InitProject /\ [][NextProject]_vars

----------------------------------------------------------------------------
(* Properties.                                                             *)

\* the rectangle of the sun marker drawn for a sample: a 16 x 16 box
\* centred on 270 + 15 * x, 480 - 8 * y
MarkerRect(sample) ==
    <<270 * Scale + 15 * sample.x - 8 * Scale,
      480 * Scale - 8 * sample.y - 8 * Scale,
      16 * Scale, 16 * Scale>>

\* the first day of the colour band a day belongs to
BandStart(day) ==
    IF day < 80 THEN 0
    ELSE IF day < 172 THEN 80
    ELSE IF day < 266 THEN 172
    ELSE 266

\* an update step whose increment animation_speed * dt * 60 is below one day
ShortStep(dt) ==
    LET inc == Increment(animation_speed, dt)
    IN  inc.top = 0 \/ (inc.top = 1 /\ inc.num > 0)

\* an update step whose increment is below 1 - 2^-44 days
ClearStep(dt) ==
    LET inc == Increment(animation_speed, dt)
    IN  \/ inc.top = 0
        \/ /\ inc.top = 1
           /\ inc.num > 0
           /\ (inc.bits < 44 \/ inc.num > 2 ^ (inc.bits - 44))

\* a render tick and an update tick of the event loop; the first conjunct
\* repeats what the handler records in event
RenderTick == event'.kind = "render" /\ HandleRender

UpdateTick(dt) == event' = [kind |-> "update", dt |-> dt] /\ HandleUpdate(dt)

\* C1: in every reachable state current_day is a valid day-of-year index,
\* an integer in 0..364.
DayAlwaysInYear == current_day \in 0..364

\* C2: a render tick leaves current_day and animation_speed unchanged.
RenderIsPureRead ==
    [][RenderTick =>
        current_day' = current_day /\ animation_speed' = animation_speed]_vars

\* C3 as stated: at speed 1 an update with 60 seconds elapsed advances
\* current_day by exactly one day modulo 365.
OneDayPerMinute ==
    [][(animation_speed = 1 /\ current_day \in 0..364
           /\ UpdateTick(Seconds(60)))
        => current_day' = (current_day + 1) % 365]_vars

\* C3 amended: at speed 1 an update with s whole seconds elapsed advances
\* current_day by 60 * s days modulo 365 (one simulated day per 1/60 s);
\* with 60 seconds that is 3600 days, and from day 364 it yields day 314.
SixtyDaysPerSecond ==
    [][\A s \in LongSteps :
        (animation_speed = 1 /\ current_day \in 0..364
            /\ UpdateTick(Seconds(s)))
        => /\ current_day' = (current_day + 60 * s) % 365
           /\ (s = 60 /\ current_day = 364 => current_day' = 314)]_vars

SixtySecondsFromYearEnd ==
    /\ event = [kind |-> "update", dt |-> Seconds(60)]
    /\ day_before = 364
    /\ current_day = 314

\* C4: the year path has exactly 365 samples, sample i carries day i, and
\* no tick changes it.
YearPathFixed ==
    /\ [](/\ Len(sun_positions) = 365
          /\ \A i \in 0..364 : sun_positions[i + 1].day = i)
    /\ [][sun_positions' = sun_positions]_vars

YearPathAfterTicks ==
    /\ event.kind = "update"
    /\ day_before >= 365
    /\ Len(sun_positions) = 365
    /\ sun_positions[365].day = 364

\* C5: every render frame contains the sun marker, drawn at the projected
\* position of the sample of the day the frame was rendered for.
SunMarkerInEveryFrame ==
    event.kind = "render" =>
        /\ day_before < Len(sun_positions)
        /\ Len(frame.sun) = 1
        /\ frame.sun[1].rect = MarkerRect(sun_positions[day_before + 1])

\* C6: screen_position maps a sample (h, v) to x = 270 + 15 * h and
\* y = 480 - 8 * v whatever current_day is, for the chosen samples and for
\* the samples of the path drawn in a frame; (0, 23.44) goes to
\* (270, 292.48).
ProjectionIsAffine ==
    /\ probe.called =>
        /\ probe.result = <<270 * Scale + 15 * probe.sample.x,
                            480 * Scale - 8 * probe.sample.y>>
        /\ (probe.sample.x = 0 /\ probe.sample.y = 2344
               => probe.result = <<27000, 29248>>)
    /\ \A k \in 1..Len(frame.path) :
        /\ frame.path[k].line[1] = 270 * Scale + 15 * sun_positions[k].x
        /\ frame.path[k].line[2] = 480 * Scale - 8 * sun_positions[k].y

ProjectedSolsticeSample ==
    /\ probe.called
    /\ probe.sample.x = 0
    /\ probe.sample.y = 2344
    /\ probe.result = <<27000, 29248>>
    /\ current_day # InitialDay
    /\ Len(frame.path) = 365

\* C7: in a drawn path the segments of days 0..79, 80..171, 172..265 and
\* 266..364 have one colour per band, the four band colours are pairwise
\* distinct, and no segment has the default colour white.
SeasonBandsPartitionYear ==
    frame.path # <<>> =>
        /\ Len(frame.path) = 365
        /\ \A d \in 0..364 :
            /\ frame.path[d + 1].colour = frame.path[BandStart(d) + 1].colour
            /\ frame.path[d + 1].colour # <<1000, 1000, 1000, 1000>>
        /\ \A a, b \in {0, 80, 172, 266} :
            a # b => frame.path[a + 1].colour # frame.path[b + 1].colour

PathDrawnInColour ==
    /\ event.kind = "render"
    /\ Len(frame.path) = 365
    /\ frame.path[80].colour # frame.path[81].colour
    /\ frame.path[365].colour = frame.path[267].colour

\* C8 as stated: drawing the current sun while current_day < 365 advances
\* current_day by exactly 365.
SunDrawAdds365 ==
    [][(current_day < 365 /\ RenderTick)
        => current_day' = current_day + 365]_vars

\* C8 amended: drawing the current sun while current_day < 365 advances
\* current_day by exactly 366 (the loop over 0..=365 runs 366 times).
SunDrawAdds366 ==
    [][(current_day < 365 /\ RenderTick)
        => current_day' = current_day + 366]_vars

SunDrawnFromValidDay ==
    /\ event.kind = "render"
    /\ day_before < 365
    /\ Len(frame.sun) = 1
    /\ current_day = day_before + 366

\* C9 as stated: with an update increment below one day, a render tick
\* from day d in 0..364 followed by an update tick leaves
\* current_day = (d + 1) mod 365, while an update tick taken alone from d
\* leaves current_day = d.
ShortStepsAdvanceOnlyByRender ==
    [][\A dt \in DtSet :
        (ShortStep(dt) /\ UpdateTick(dt))
        => IF event.kind = "render" /\ day_before \in 0..364
           THEN current_day' = (day_before + 1) % 365
           ELSE (current_day \in 0..364 => current_day' = current_day)]_vars

\* C9 amended: the same for an update increment below 1 - 2^-44 days, for
\* which the f64 sum current_day + increment cannot round up to the next
\* whole day.
ClearStepsAdvanceOnlyByRender ==
    [][\A dt \in DtSet :
        (ClearStep(dt) /\ UpdateTick(dt))
        => IF event.kind = "render" /\ day_before \in 0..364
           THEN current_day' = (day_before + 1) % 365
           ELSE (current_day \in 0..364 => current_day' = current_day)]_vars

WrappedAfterRenderAndUpdate ==
    /\ event = [kind |-> "update", dt |-> AlmostSixtieth(40)]
    /\ day_before = 730
    /\ current_day = 0

\* C10: current_day never exceeds 730, the sun marker is only drawn for an
\* index inside the path, and a render tick taken while current_day >= 365
\* neither changes current_day nor draws the marker.
DayNeverExceeds730 ==
    /\ [](/\ current_day <= 730
          /\ (frame.sun # <<>> => day_before < Len(sun_positions)))
    /\ [][(current_day >= 365 /\ RenderTick)
            => current_day' = current_day /\ frame'.sun = <<>>]_vars

RenderedTwiceAtMaximum ==
    /\ event.kind = "render"
    /\ day_before = 730
    /\ current_day = 730
    /\ frame.sun = <<>>

====
